---- MODULE Spec2Model ----
(***************************************************************************)
(* licht: one run of the brightness tool.                                  *)
(*                                                                         *)
(* The repository holds two generations of the same code:                  *)
(*   - main.rs with the three-argument stepping trait                      *)
(*     calculate(step, cur, max) (main.rs, stepping/mod.rs, absolute.rs,   *)
(*     geometric.rs, parabolic.rs, set.rs) and Backlight of main.rs;       *)
(*   - the two-argument trait calculate(cur, max), the step being a field  *)
(*     of the stepping (stepping/linear.rs, stepping/blend.rs), called by  *)
(*     Light::calculate_brightness of light.rs (and by the identical       *)
(*     Backlight::calculate_brightness of backlight.rs).                   *)
(* Both are modelled, each with the steppings that fit its trait.          *)
(*                                                                         *)
(* f32 is modelled as fixed point: the integer v stands for v / Scale,     *)
(* every operation rounding its result to the nearest multiple of 1/Scale, *)
(* as an f32 operation rounds to the nearest f32. NaN is a value of its    *)
(* own. powf is modelled for the exponents 0, 1/4, 1/2, 1, 2, 4 and +inf.  *)
(***************************************************************************)
EXTENDS Integers, Sequences, FiniteSets, TLC

\* ------------------------------------------------------------------ f32

\* step as f32 / 100.0f32
Percent == 100

\* The resolution of the modelled f32: 1/Scale.
Scale == Percent * Percent

\* f32::NAN and f32::INFINITY, outside the range of the finite values used.
NaN == 0 - (Scale * Scale * 10)
Inf == Scale * Scale * 10

IsNaN(x) == x = NaN

Abs(n) == IF n < 0 THEN 0 - n ELSE n

\* n / d rounded to the nearest integer, d > 0 (a half rounds up).
RoundDiv(n, d) == IF 2 * (n % d) >= d THEN (n \div d) + 1 ELSE n \div d

\* n as f32, for an integer n (exact below 2^24).
FromInt(n) == n * Scale

\* n as f32 / d as f32, for integers n and d > 0.
RatioF(n, d) == RoundDiv(n * Scale, d)

FAdd(x, y) == IF IsNaN(x) \/ IsNaN(y) THEN NaN ELSE x + y

FSub(x, y) == IF IsNaN(x) \/ IsNaN(y) THEN NaN ELSE x - y

\* x * y: x is split into its integer and fractional part, so that the
\* product of two fixed-point numbers stays a machine integer.
FMul(x, y) ==
    IF IsNaN(x) \/ IsNaN(y) THEN NaN
    ELSE (x \div Scale) * y + RoundDiv((x % Scale) * y, Scale)

\* x / 2.0f32
FHalf(x) == IF IsNaN(x) THEN NaN ELSE RoundDiv(x, 2)

FAbs(x) == IF IsNaN(x) THEN NaN ELSE Abs(x)

\* Comparisons: every comparison with NaN is false.
FLe(x, y) == ~IsNaN(x) /\ ~IsNaN(y) /\ x <= y
FLt(x, y) == ~IsNaN(x) /\ ~IsNaN(y) /\ x < y
FGe(x, y) == FLe(y, x)
FGt(x, y) == FLt(y, x)

\* f32::min and f32::max: the other operand when one is NaN.
FMin(x, y) == IF IsNaN(x) THEN y ELSE IF IsNaN(y) THEN x ELSE IF x <= y THEN x ELSE y
FMax(x, y) == IF IsNaN(x) THEN y ELSE IF IsNaN(y) THEN x ELSE IF x >= y THEN x ELSE y

\* f32::clamp for lo <= hi (it panics otherwise): NaN stays NaN.
FClamp(x, lo, hi) == IF FLt(x, lo) THEN lo ELSE IF FGt(x, hi) THEN hi ELSE x

\* x as usize: truncates toward zero, negative values and NaN give 0.
AsUsize(x) == IF IsNaN(x) \/ x < 0 THEN 0 ELSE x \div Scale

\* x as i32: truncates toward zero, NaN gives 0.
AsI32(x) ==
    IF IsNaN(x) THEN 0
    ELSE IF x < 0 THEN 0 - ((0 - x) \div Scale) ELSE x \div Scale

RECURSIVE SqrtSearch(_, _, _)
\* The largest r in lo..hi with r * r <= n, given lo * lo <= n.
SqrtSearch(n, lo, hi) ==
    IF lo >= hi THEN lo
    ELSE LET mid == (lo + hi + 1) \div 2
         IN IF mid * mid <= n THEN SqrtSearch(n, mid, hi)
            ELSE SqrtSearch(n, lo, mid - 1)

\* The square root of the integer n >= 0, rounded to the nearest integer.
ISqrt(n) ==
    LET r == SqrtSearch(n, 0, 4 * Scale)
    IN IF n - r * r > r THEN r + 1 ELSE r

\* x.sqrt() for 0 <= x; NaN for x < 0.
FSqrt(x) ==
    IF IsNaN(x) \/ x < 0 THEN NaN ELSE ISqrt(x * Scale)

\* The exponents powf is modelled for.
Quarter == Scale \div 4
Half == Scale \div 2
One == Scale
Two == 2 * Scale
Four == 4 * Scale
Exponents == {0, Quarter, Half, One, Two, Four, Inf}

\* e.recip(): 1/0 is +inf, 1/inf is 0.
Recip(e) ==
    IF e = 0 THEN Inf
    ELSE IF e = Inf THEN 0
    ELSE RoundDiv(Scale * Scale, e)

\* x.powf(e), e in Exponents and x finite or NaN. powf(x, 0) is 1 for every x,
\* NaN included; an even integer power of a negative base is positive; a
\* fractional power of a negative base is NaN; powf(x, inf) is 0 for |x| < 1,
\* 1 for |x| = 1, inf for |x| > 1.
Powf(x, e) ==
    IF e = 0 THEN One
    ELSE IF IsNaN(x) THEN NaN
    ELSE IF e = One THEN x
    ELSE IF e = Two THEN FMul(x, x)
    ELSE IF e = Four THEN FMul(FMul(x, x), FMul(x, x))
    ELSE IF e = Half THEN FSqrt(x)
    ELSE IF e = Quarter THEN FSqrt(FSqrt(x))
    ELSE IF Abs(x) < One THEN 0
    ELSE IF Abs(x) = One THEN One
    ELSE Inf

\* ------------------------------------------------------ parsing (from_str)

\* A string is the sequence of its characters.
DigitVal ==
    [c \in {"0", "1", "2", "3", "4", "5", "6", "7", "8", "9"} |->
        CASE c = "0" -> 0 [] c = "1" -> 1 [] c = "2" -> 2 [] c = "3" -> 3
          [] c = "4" -> 4 [] c = "5" -> 5 [] c = "6" -> 6 [] c = "7" -> 7
          [] c = "8" -> 8 [] c = "9" -> 9]

IsDigits(t) == \A i \in 1..Len(t) : t[i] \in DOMAIN DigitVal

RECURSIVE DigitsValue(_)
DigitsValue(t) ==
    IF t = <<>> THEN 0
    ELSE DigitsValue(SubSeq(t, 1, Len(t) - 1)) * 10 + DigitVal[t[Len(t)]]

RECURSIVE Pow10(_)
Pow10(n) == IF n = 0 THEN 1 ELSE 10 * Pow10(n - 1)

\* str::parse::<f32>() for the decimal forms digits, digits.digits, digits.
\* and .digits; every other text is a parse error. [ok, val].
ParseF32(t) ==
    LET dots == {i \in 1..Len(t) : t[i] = "."}
        d == CHOOSE i \in dots : TRUE
        ip == IF dots = {} THEN t ELSE SubSeq(t, 1, d - 1)
        fp == IF dots = {} THEN <<>> ELSE SubSeq(t, d + 1, Len(t))
    IN IF Cardinality(dots) > 1 THEN [ok |-> FALSE, val |-> 0]
       ELSE IF ~IsDigits(ip) \/ ~IsDigits(fp) \/ Len(ip) + Len(fp) = 0
            THEN [ok |-> FALSE, val |-> 0]
       ELSE [ok |-> TRUE,
             val |-> DigitsValue(ip) * Scale
                     + RoundDiv(DigitsValue(fp) * Scale, Pow10(Len(fp)))]

\* s[1..s.len()-1]
Inner(s) == SubSeq(s, 2, Len(s) - 1)

\* The positions of the character c in s.
Positions(s, c) == {i \in 1..Len(s) : s[i] = c}

\* Regex::new(r"\(.*\)").is_match(s): the pattern is not anchored, so it
\* matches when some ")" follows some "(".
ParabolicRegexMatch(s) ==
    \E i \in Positions(s, "("), j \in Positions(s, ")") : i < j

\* The shortest text Parabolic::from_str takes between the parentheses.
ParabolicMinLen == 3

\* Parabolic::from_str: [ok, exponent].
ParabolicFromStr(s) ==
    IF ~ParabolicRegexMatch(s) THEN [ok |-> FALSE, exponent |-> 0]
    ELSE IF Len(Inner(s)) < ParabolicMinLen THEN [ok |-> FALSE, exponent |-> 0]
    ELSE LET e == ParseF32(Inner(s))
         IN [ok |-> e.ok, exponent |-> e.val]

\* Regex::new(r"\(.*,.*,.*\)").is_match(s): some "(" is followed by two
\* commas and then by some ")".
BlendRegexMatch(s) ==
    \E i \in Positions(s, "("), m \in Positions(s, ")") :
        Cardinality({c \in Positions(s, ",") : i < c /\ c < m}) >= 2

RECURSIVE Split(_)
\* s.split(',').collect()
Split(t) ==
    LET commas == {i \in 1..Len(t) : t[i] = ","}
        c == CHOOSE i \in commas : \A j \in commas : i <= j
    IN IF commas = {} THEN <<t>>
       ELSE <<SubSeq(t, 1, c - 1)>> \o Split(SubSeq(t, c + 1, Len(t)))

\* The number of parameters of Blend.
BlendParams == 3

\* Blend::from_str of main.rs: [ok, ratio, a, b].
BlendFromStr(s) ==
    LET bad == [ok |-> FALSE, ratio |-> 0, a |-> 0, b |-> 0]
        nums == Split(Inner(s))
    IN IF ~BlendRegexMatch(s) THEN bad
       ELSE IF Len(nums) # BlendParams THEN bad
       ELSE LET ratio == ParseF32(nums[1])
                a == ParseF32(nums[2])
                b == ParseF32(nums[3])
            IN IF ratio.ok /\ a.ok /\ b.ok
               THEN [ok |-> TRUE, ratio |-> ratio.val, a |-> a.val, b |-> b.val]
               ELSE bad

\* ------------------------------------------------------------ steppings

\* A stepping: the kind and the parameters of the kinds that have some.
SteppingOf(kind, exponent, ratio, a, b) ==
    [kind |-> kind, exponent |-> exponent, ratio |-> ratio, a |-> a, b |-> b]

Plain(kind) == SteppingOf(kind, 0, 0, 0, 0)

\* Absolute::calculate (main.rs, stepping/absolute.rs)
AbsoluteCalculate(step, cur, max) == FAdd(FromInt(cur), FromInt(step))

\* Geometric::calculate (main.rs, stepping/geometric.rs)
GeometricCalculate(step, cur, max) ==
    LET stepf == RatioF(step, Percent)
    IN FAdd(FromInt(cur), FMul(FromInt(cur), stepf))

\* Parabolic::calculate mapping cur/max onto the curve with the exponent
\* in place of its reciprocal.
ParabolicCalculateNoRecip(exponent, step, cur, max) ==
    LET cur_x == Powf(RatioF(cur, max), exponent)
        new_x == FAdd(cur_x, RatioF(step, Percent))
    IN FMul(FromInt(max), Powf(new_x, exponent))

\* Parabolic::calculate (main.rs, stepping/parabolic.rs)
ParabolicCalculate(exponent, step, cur, max) ==
    LET cur_x == Powf(RatioF(cur, max), Recip(exponent))
        new_x == FAdd(cur_x, RatioF(step, Percent))
    IN FMul(FromInt(max), Powf(new_x, exponent))

\* Set::calculate adding the step to the current brightness, as Absolute does.
SetCalculateAddsCur(step, cur, max) == FAdd(FromInt(cur), FromInt(step))

\* Set::calculate (stepping/set.rs)
SetCalculate(step, cur, max) == FromInt(step)

\* Linear::calculate (stepping/linear.rs)
LinearCalculate(step, cur, max) == FAdd(FromInt(cur), FromInt(step))

\* The steppings that return without a loop.
DirectCalculate(s, step, cur, max) ==
    CASE s.kind = "Absolute" -> AbsoluteCalculate(step, cur, max)
      [] s.kind = "Geometric" -> GeometricCalculate(step, cur, max)
      [] s.kind = "Parabolic" -> ParabolicCalculate(s.exponent, step, cur, max)
      [] s.kind = "Set" -> SetCalculate(step, cur, max)
      [] s.kind = "Linear" -> LinearCalculate(step, cur, max)

\* ------------------------------------------------- Blend of main.rs

\* f, f_inverse, g, g_inverse and h of Blend::calculate in main.rs
BlendF(s, x) == Powf(x, s.a)
BlendFInverse(s, x) == Powf(x, Recip(s.a))
BlendG(s, x) == FSub(One, Powf(FSub(One, x), Recip(s.b)))
BlendGInverse(s, x) == FSub(One, Powf(FSub(One, x), s.b))
BlendH(s, max, x) ==
    FMul(FromInt(max),
         FAdd(FMul(s.ratio, BlendF(s, x)), FMul(FSub(One, s.ratio), BlendG(s, x))))

\* 0.001f32, the tolerance of the loop relative to max
Milli == Scale \div 1000

\* l, r and first_guess before the loop
BlendInit(s, cur, max) ==
    LET cur_f_inv == BlendFInverse(s, RatioF(cur, max))
        cur_g_inv == BlendGInverse(s, RatioF(cur, max))
        l0 == FMin(cur_f_inv, cur_g_inv)
        r0 == FMax(cur_f_inv, cur_g_inv)
    IN [l |-> l0, r |-> r0,
        cur_x |-> FAdd(FMul(s.ratio, l0), FMul(FSub(One, s.ratio), r0))]

\* diff at the head of the loop
BlendDiff(s, cur, max, x) == FSub(BlendH(s, max, x), FromInt(cur))

\* The loop's exit test
BlendWithinTolerance(s, cur, max, x) ==
    FLe(FAbs(BlendDiff(s, cur, max, x)), FMul(FromInt(max), Milli))

\* One pass of the loop that does not exit: the narrowed bracket and its midpoint
BlendNarrow(s, cur, max, lo, hi, x) ==
    LET l1 == IF FGt(BlendDiff(s, cur, max, x), 0) THEN lo ELSE x
        r1 == IF FGt(BlendDiff(s, cur, max, x), 0) THEN x ELSE hi
    IN [l |-> l1, r |-> r1,
        cur_x |-> FClamp(FAdd(l1, FHalf(FSub(r1, l1))), 0, One)]

\* The value returned after the loop
BlendResult(s, step, max, x) ==
    LET new_x == FClamp(FAdd(x, RatioF(step, Percent)), 0, One)
    IN BlendH(s, max, new_x)

\* ------------------------------------------ Blend of stepping/blend.rs

\* The saturation checks with the check for cur == 0 left out.
BlendRsShortCircuitAtMaxOnly(step, cur, max) == cur = max /\ step > 0

\* The saturation checks ahead of the search
BlendRsShortCircuit(step, cur, max) ==
    (cur = max /\ step > 0) \/ (cur = 0 /\ step < 0)

BlendRsShortCircuitValue(step, cur, max) ==
    IF cur = max /\ step > 0 THEN FromInt(max) ELSE 0

BlendRsFInverse(s, max, y) == Powf(RatioF(y, max), Recip(s.a))
BlendRsGInverse(s, max, y) == FSub(One, Powf(FSub(One, RatioF(y, max)), s.b))

\* h: the second term's constant part is moved into the target
BlendRsH(s, max, x) ==
    AsI32(FAdd(FSub(FMul(FMul(FromInt(max), s.ratio), Powf(x, s.a)),
                    FMul(FMul(FromInt(max), FSub(One, s.ratio)),
                         Powf(FSub(One, x), Recip(s.b)))),
               Half))

\* cur - (max as f32 * (1.0 - ratio)) as i32
BlendRsTarget(s, cur, max) == cur - AsI32(FMul(FromInt(max), FSub(One, s.ratio)))

BlendRsInit(s, cur, max) ==
    LET fi == BlendRsFInverse(s, max, cur)
        gi == BlendRsGInverse(s, max, cur)
    IN [l |-> FMin(fi, gi), r |-> FMax(fi, gi),
        cur_x |-> FAdd(FMul(s.ratio, fi), FMul(FSub(One, s.ratio), gi))]

BlendRsDiff(s, cur, max, x) == BlendRsH(s, max, x) - BlendRsTarget(s, cur, max)

BlendRsNarrow(s, cur, max, lo, hi, x) ==
    LET l1 == IF BlendRsDiff(s, cur, max, x) < 0 THEN x ELSE lo
        r1 == IF BlendRsDiff(s, cur, max, x) < 0 THEN hi ELSE x
    IN [l |-> l1, r |-> r1, cur_x |-> FAdd(l1, FHalf(FSub(r1, l1)))]

BlendRsResult(s, step, max, x) ==
    LET new_x == FAdd(x, RatioF(step, Percent))
    IN IF FGe(new_x, One) THEN FromInt(max)
       ELSE IF FLe(new_x, 0) THEN 0
       ELSE FAdd(FromInt(BlendRsH(s, max, new_x)),
                 FMul(FromInt(max), FSub(One, s.ratio)))

\* ------------------------------------------------------------ the clamp

Min2(m, n) == IF m <= n THEN m ELSE n
Max2(m, n) == IF m >= n THEN m ELSE n

\* main.rs: self.max_brightness.min((new_brightness + 0.5f32) as usize).max(min)
BacklightClamp(new_brightness, max_brightness, min) ==
    Max2(Min2(max_brightness, AsUsize(FAdd(new_brightness, Half))), min)

\* light.rs, backlight.rs: f32::clamp panics when min > max
LightClampPanics(max_brightness, min) == min > max_brightness

\* light.rs, backlight.rs: .clamp(min as f32, max_brightness as f32) as usize
LightClamp(new_brightness, max_brightness, min) ==
    AsUsize(FClamp(new_brightness, FromInt(min), FromInt(max_brightness)))

\* ------------------------------------------------------------ the inputs

\* The largest max_brightness a modelled device reports.
MaxBrightness == 30

\* The max_brightness values of the modelled devices.
Maxes == {1, 3, 10, MaxBrightness}

\* The sysfs attributes of the device: two well-formed numbers with
\* brightness <= max_brightness, or an attribute that cannot be read, or one
\* that is no number.
Devices ==
    {d \in [readable : {"ok"}, brightness : 0..MaxBrightness, max_brightness : Maxes] :
        d.brightness <= d.max_brightness}
    \cup [readable : {"io error", "parse failure"}, brightness : {0},
          max_brightness : {1}]

\* The steps given on the command line.
Steps == {0 - 150, 0 - 50, 0 - 10, 0, 10, 100}

\* The --min-brightness values given (the default is 0).
Mins == {0, 2, 5, MaxBrightness + 10}

\* The values given to --parabolic.
ParabolicArgs ==
    { <<"(", "2", ".", "0", ")">>, <<"(", "0", ".", "0", ")">>,
      <<"(", "0", ".", "5", ")">>, <<"(", "1", ".", "0", ")">>,
      <<"(", "2", ")">>, <<"2", ".", "0">>, <<"(", "t", "w", "o", ")">> }

\* The values given to --blend.
BlendArgs ==
    { <<"(", "0", ".", "5", ",", "2", ".", "0", ",", "4", ".", "0", ")">>,
      <<"(", "0", ".", "7", "5", ",", "2", ".", "0", ",", "2", ".", "0", ")">>,
      <<"(", "0", ".", "5", ",", "1", ".", "0", ",", "1", ".", "0", ")">>,
      <<"(", "0", ".", "5", ",", "2", ".", "0", ")">>,
      <<"(", "1", ",", "2", ",", "3", ",", "4", ")">> }

\* The Blend values a caller of stepping/blend.rs builds (ratio, a, b).
LibBlends ==
    { SteppingOf("BlendRs", 0, Half, Two, Four),
      SteppingOf("BlendRs", 0, (3 * Scale) \div 4, Two, Two),
      SteppingOf("BlendRs", 0, Half, One, One) }

\* The members of the ArgGroup "stepping-mode"
Modes == {"absolute", "geometric", "parabolic", "blend"}

\* The iteration count is kept up to this number.
MaxIter == 70

\* --------------------------------------------------------------- state

VARIABLES
    pc,              \* where the run is
    unit,            \* "main": main.rs; "api": a caller of Backlight with Set;
                     \* "lib": a caller of Light (light.rs)
    dev,             \* the device's sysfs attributes
    requested,       \* the stepping-mode options on the command line
    cli,             \* the parsed Cli
    brightness,      \* Backlight.brightness, Light.brightness
    max_brightness,  \* Backlight.max_brightness, Light.max_brightness
    args,            \* step, stepping and min of calculate_brightness
    cur,             \* the brightness calculate was called with
    l, r, cur_x,     \* the locals of the Blend loop
    iters,           \* the passes of the Blend loop that did not exit
    entered,         \* whether the Blend loop was entered
    raw,             \* what calculate returned
    writes,          \* the values written to the device's brightness attribute
    error            \* why the run ended early

vars == <<pc, unit, dev, requested, cli, brightness, max_brightness, args, cur, l, r,
          cur_x, iters, entered, raw, writes, error>>

None == [some |-> FALSE, stepping |-> Plain("None")]
Some(s) == [some |-> TRUE, stepping |-> s]

NoCli ==
    [absolute |-> None, geometric |-> None, parabolic |-> None, blend |-> None,
     step |-> 0, min_brightness |-> 0, dry_run |-> FALSE]

NoArgs == [step |-> 0, stepping |-> Plain("None"), min |-> 0]

Init ==
    /\ pc = "start"
    /\ unit = "none"
    /\ dev \in Devices
    /\ requested = {}
    /\ cli = NoCli
    /\ brightness = 0
    /\ max_brightness = 0
    /\ args = NoArgs
    /\ cur = 0
    /\ l = 0
    /\ r = 0
    /\ cur_x = 0
    /\ iters = 0
    /\ entered = FALSE
    /\ raw = 0
    /\ writes = <<>>
    /\ error = "none"

\* ------------------------------------------------------------ main.rs

\* The ArgGroup declared with multiple(true): no command line is refused.
GroupAllowsMultiple(modes) == FALSE

\* ArgGroup::new("stepping-mode").multiple(false): clap refuses a command
\* line that names more than one member of the group.
GroupConflict(modes) == Cardinality(modes) > 1

\* Cli::get_stepping with the last or_else left out: blend is never returned.
get_stepping_without_blend(c) ==
    IF c.absolute.some THEN c.absolute
    ELSE IF c.geometric.some THEN c.geometric
    ELSE IF c.parabolic.some THEN c.parabolic
    ELSE None

\* Cli::get_stepping: the first option present, in the order absolute,
\* geometric, parabolic, blend.
get_stepping(c) ==
    IF c.absolute.some THEN c.absolute
    ELSE IF c.geometric.some THEN c.geometric
    ELSE IF c.parabolic.some THEN c.parabolic
    ELSE c.blend

\* The default of main: &Parabolic { exponent: 2.0f32 }
DefaultStepping == SteppingOf("Parabolic", Two, 0, 0, 0)

\* cli.get_stepping().unwrap_or(&Parabolic { exponent: 2.0f32 })
ResolveStepping(c) ==
    IF get_stepping(c).some THEN get_stepping(c).stepping ELSE DefaultStepping

\* The Cli of a command line that names the options modes, --parabolic
\* parsed to p and --blend parsed to b.
ParsedCli(modes, p, b, step, min, dry) ==
    [absolute |-> IF "absolute" \in modes THEN Some(Plain("Absolute")) ELSE None,
     geometric |-> IF "geometric" \in modes THEN Some(Plain("Geometric")) ELSE None,
     parabolic |-> IF "parabolic" \in modes
                   THEN Some(SteppingOf("Parabolic", p.exponent, 0, 0, 0))
                   ELSE None,
     blend |-> IF "blend" \in modes
               THEN Some(SteppingOf("Blend", 0, b.ratio, b.a, b.b))
               ELSE None,
     step |-> step, min_brightness |-> min, dry_run |-> dry]

\* Cli::parse(): the options given are modes, with the texts ptext and btext
\* for --parabolic and --blend. clap exits on a group conflict and on a value
\* its from_str refuses.
CliParse ==
    /\ pc = "start"
    /\ \E modes \in SUBSET Modes, ptext \in ParabolicArgs, btext \in BlendArgs :
         LET p == ParabolicFromStr(ptext)
             b == BlendFromStr(btext)
             bad == \/ GroupConflict(modes)
                    \/ ("parabolic" \in modes /\ ~p.ok)
                    \/ ("blend" \in modes /\ ~b.ok)
         IN /\ requested' = modes
            /\ IF bad
               THEN /\ pc' = "exit"
                    /\ error' = IF GroupConflict(modes) THEN "ArgumentConflict"
                                ELSE "ValueValidation"
                    /\ cli' = cli
               ELSE /\ \E step \in Steps, min \in Mins, dry \in BOOLEAN :
                         cli' = ParsedCli(modes, p, b, step, min, dry)
                    /\ pc' = "parsed"
                    /\ error' = error
    /\ unit' = "main"
    /\ UNCHANGED <<dev, brightness, max_brightness, args, cur, l, r, cur_x,
                   iters, entered, raw, writes>>

\* A caller that hands stepping::Set to Backlight::calculate_brightness: no
\* option of Cli selects Set.
SetCaller ==
    /\ pc = "start"
    /\ pc' = "parsed"
    /\ unit' = "api"
    /\ UNCHANGED <<requested, dev, cli, brightness, max_brightness, args, cur, l, r, cur_x,
                   iters, entered, raw, writes, error>>

\* Backlight::new with unwrap_or_default() in place of ?: an attribute that
\* cannot be read or parsed counts as 0 and the run goes on.
BacklightNewDefaultsOnError ==
    /\ pc = "parsed"
    /\ brightness' = IF dev.readable = "ok" THEN dev.brightness ELSE 0
    /\ max_brightness' = IF dev.readable = "ok" THEN dev.max_brightness ELSE 0
    /\ pc' = "constructed"
    /\ UNCHANGED <<requested, unit, dev, cli, args, cur, l, r, cur_x, iters, entered, raw,
                   writes, error>>

\* Backlight::new: read_to_usize of brightness and of max_brightness; a
\* failure of either is returned by ?.
BacklightNew ==
    /\ pc = "parsed"
    /\ IF dev.readable = "ok"
       THEN /\ brightness' = dev.brightness
            /\ max_brightness' = dev.max_brightness
            /\ pc' = "constructed"
            /\ error' = error
       ELSE /\ pc' = "exit"
            /\ error' = dev.readable
            /\ UNCHANGED <<requested, brightness, max_brightness>>
    /\ UNCHANGED <<requested, unit, dev, cli, args, cur, l, r, cur_x, iters, entered, raw,
                   writes>>

\* calculate_brightness of main.rs with a stepping that has no loop.
Calculated(a, result) ==
    /\ args' = a
    /\ cur' = brightness
    /\ raw' = result
    /\ brightness' = BacklightClamp(result, max_brightness, a.min)
    /\ pc' = "calculated"

MainArgs == [step |-> cli.step, stepping |-> ResolveStepping(cli),
             min |-> cli.min_brightness]

BacklightCalculate ==
    /\ pc = "constructed"
    /\ unit = "main"
    /\ MainArgs.stepping.kind # "Blend"
    /\ Calculated(MainArgs,
                  DirectCalculate(MainArgs.stepping, MainArgs.step, brightness,
                                  max_brightness))
    /\ UNCHANGED <<requested, unit, dev, cli, max_brightness, l, r, cur_x, iters, entered,
                   writes, error>>

\* calculate_brightness(step, &Set, min)
BacklightCalculateSet ==
    /\ pc = "constructed"
    /\ unit = "api"
    /\ \E step \in Steps, min \in Mins :
         Calculated([step |-> step, stepping |-> Plain("Set"), min |-> min],
                    SetCalculate(step, brightness, max_brightness))
    /\ UNCHANGED <<requested, unit, dev, cli, max_brightness, l, r, cur_x, iters, entered,
                   writes, error>>

\* calculate_brightness with Blend, up to the head of the loop.
BlendEnter ==
    /\ pc = "constructed"
    /\ unit = "main"
    /\ MainArgs.stepping.kind = "Blend"
    /\ args' = MainArgs
    /\ cur' = brightness
    /\ LET i == BlendInit(MainArgs.stepping, brightness, max_brightness)
       IN /\ l' = i.l
          /\ r' = i.r
          /\ cur_x' = i.cur_x
    /\ entered' = TRUE
    /\ pc' = "loop"
    /\ UNCHANGED <<requested, unit, dev, cli, brightness, max_brightness, iters, raw,
                   writes, error>>

\* One pass of the loop that does not break.
BlendIterate ==
    /\ pc = "loop"
    /\ unit = "main"
    /\ ~BlendWithinTolerance(args.stepping, cur, max_brightness, cur_x)
    /\ LET n == BlendNarrow(args.stepping, cur, max_brightness, l, r, cur_x)
       IN /\ l' = n.l
          /\ r' = n.r
          /\ cur_x' = n.cur_x
    /\ iters' = IF iters < MaxIter THEN iters + 1 ELSE iters
    /\ UNCHANGED <<requested, pc, unit, dev, cli, brightness, max_brightness, args, cur,
                   entered, raw, writes, error>>

\* The pass that breaks, the rest of calculate and of calculate_brightness.
BlendBreak ==
    /\ pc = "loop"
    /\ unit = "main"
    /\ BlendWithinTolerance(args.stepping, cur, max_brightness, cur_x)
    /\ raw' = BlendResult(args.stepping, args.step, max_brightness, cur_x)
    /\ brightness' = BacklightClamp(raw', max_brightness, args.min)
    /\ pc' = "calculated"
    /\ UNCHANGED <<requested, unit, dev, cli, max_brightness, args, cur, l, r, cur_x, iters,
                   entered, writes, error>>

\* main: if !cli.dry_run { backlight.write() }, the write succeeding.
BacklightWrite ==
    /\ pc = "calculated"
    /\ unit = "main"
    /\ ~cli.dry_run
    /\ writes' = Append(writes, brightness)
    /\ dev' = [dev EXCEPT !.brightness = brightness]
    /\ pc' = "done"
    /\ UNCHANGED <<requested, unit, cli, brightness, max_brightness, args, cur, l, r, cur_x,
                   iters, entered, raw, error>>

\* The write failing: "writing brightness failed" is returned from main.
BacklightWriteFails ==
    /\ pc = "calculated"
    /\ unit = "main"
    /\ ~cli.dry_run
    /\ pc' = "exit"
    /\ error' = "writing brightness failed"
    /\ UNCHANGED <<requested, unit, dev, cli, brightness, max_brightness, args, cur, l, r,
                   cur_x, iters, entered, raw, writes>>

\* main without the test of cli.dry_run: the dry run writes as well.
DryRunWrites ==
    /\ pc = "calculated"
    /\ unit = "main"
    /\ cli.dry_run
    /\ writes' = Append(writes, brightness)
    /\ dev' = [dev EXCEPT !.brightness = brightness]
    /\ pc' = "done"
    /\ UNCHANGED <<requested, unit, cli, brightness, max_brightness, args, cur, l, r, cur_x,
                   iters, entered, raw, error>>

\* main: else { Ok(()) }
DryRun ==
    /\ pc = "calculated"
    /\ unit = "main"
    /\ cli.dry_run
    /\ pc' = "done"
    /\ UNCHANGED <<requested, unit, dev, cli, brightness, max_brightness, args, cur, l, r,
                   cur_x, iters, entered, raw, writes, error>>

\* ------------------------------------- backlight.rs, light.rs, blend.rs

\* Backlight::from_path of backlight.rs
LibFromPath ==
    /\ pc = "start"
    /\ unit' = "lib"
    /\ IF dev.readable = "ok"
       THEN /\ brightness' = dev.brightness
            /\ max_brightness' = dev.max_brightness
            /\ pc' = "constructed"
            /\ error' = error
       ELSE /\ pc' = "exit"
            /\ error' = dev.readable
            /\ UNCHANGED <<requested, brightness, max_brightness>>
    /\ UNCHANGED <<requested, dev, cli, args, cur, l, r, cur_x, iters, entered, raw, writes>>

\* The end of calculate_brightness of light.rs and backlight.rs: the clamp
\* panics, or the clamped value is stored.
LibClamped(min, result) ==
    /\ raw' = result
    /\ IF LightClampPanics(max_brightness, min)
       THEN /\ pc' = "panic"
            /\ error' = "clamp: min > max"
            /\ brightness' = brightness
       ELSE /\ pc' = "calculated"
            /\ error' = error
            /\ brightness' = LightClamp(result, max_brightness, min)

\* calculate_brightness(&Linear { step }, min)
LibCalculateLinear ==
    /\ pc = "constructed"
    /\ unit = "lib"
    /\ \E step \in Steps, min \in Mins :
         /\ args' = [step |-> step, stepping |-> Plain("Linear"), min |-> min]
         /\ LibClamped(min, LinearCalculate(step, brightness, max_brightness))
    /\ cur' = brightness
    /\ UNCHANGED <<requested, unit, dev, cli, max_brightness, l, r, cur_x, iters, entered,
                   writes>>

\* calculate_brightness(&Blend { ratio, a, b, step }, min) with one of the
\* saturation checks returning ahead of the search.
LibBlendShortCircuit ==
    /\ pc = "constructed"
    /\ unit = "lib"
    /\ \E s \in LibBlends, step \in Steps, min \in Mins :
         /\ BlendRsShortCircuit(step, brightness, max_brightness)
         /\ args' = [step |-> step, stepping |-> s, min |-> min]
         /\ LibClamped(min, BlendRsShortCircuitValue(step, brightness, max_brightness))
    /\ cur' = brightness
    /\ UNCHANGED <<requested, unit, dev, cli, max_brightness, l, r, cur_x, iters, entered,
                   writes>>

\* The same call reaching the head of the loop.
LibBlendEnter ==
    /\ pc = "constructed"
    /\ unit = "lib"
    /\ \E s \in LibBlends, step \in Steps, min \in Mins :
         /\ ~BlendRsShortCircuit(step, brightness, max_brightness)
         /\ args' = [step |-> step, stepping |-> s, min |-> min]
         /\ LET i == BlendRsInit(s, brightness, max_brightness)
            IN /\ l' = i.l
               /\ r' = i.r
               /\ cur_x' = i.cur_x
    /\ cur' = brightness
    /\ entered' = TRUE
    /\ pc' = "loop"
    /\ UNCHANGED <<requested, unit, dev, cli, brightness, max_brightness, iters, raw,
                   writes, error>>

\* One pass of the loop that does not break.
LibBlendIterate ==
    /\ pc = "loop"
    /\ unit = "lib"
    /\ BlendRsDiff(args.stepping, cur, max_brightness, cur_x) # 0
    /\ LET n == BlendRsNarrow(args.stepping, cur, max_brightness, l, r, cur_x)
       IN /\ l' = n.l
          /\ r' = n.r
          /\ cur_x' = n.cur_x
    /\ iters' = IF iters < MaxIter THEN iters + 1 ELSE iters
    /\ UNCHANGED <<requested, pc, unit, dev, cli, brightness, max_brightness, args, cur,
                   entered, raw, writes, error>>

\* The pass that breaks, the rest of calculate and of calculate_brightness.
LibBlendBreak ==
    /\ pc = "loop"
    /\ unit = "lib"
    /\ BlendRsDiff(args.stepping, cur, max_brightness, cur_x) = 0
    /\ LibClamped(args.min,
                  BlendRsResult(args.stepping, args.step, max_brightness, cur_x))
    /\ UNCHANGED <<requested, unit, dev, cli, max_brightness, args, cur, l, r, cur_x, iters,
                   entered, writes>>

\* Backlight::write of backlight.rs, Light::write of light.rs
LibWrite ==
    /\ pc = "calculated"
    /\ unit = "lib"
    /\ writes' = Append(writes, brightness)
    /\ dev' = [dev EXCEPT !.brightness = brightness]
    /\ pc' = "done"
    /\ UNCHANGED <<requested, unit, cli, brightness, max_brightness, args, cur, l, r, cur_x,
                   iters, entered, raw, error>>

Next ==
    \/ CliParse
    \/ SetCaller
    \/ BacklightNew
    \/ BacklightCalculate
    \/ BacklightCalculateSet
    \/ BlendEnter
    \/ BlendIterate
    \/ BlendBreak
    \/ BacklightWrite
    \/ BacklightWriteFails
    \/ DryRun
    \/ LibFromPath
    \/ LibCalculateLinear
    \/ LibBlendShortCircuit
    \/ LibBlendEnter
    \/ LibBlendIterate
    \/ LibBlendBreak
    \/ LibWrite

Spec == Init /\ [][Next]_vars

\* --------------------------------------------------------------- claims

\* calculate_brightness has returned.
AfterCalculate == pc \in {"calculated", "done"}

\* C1: after calculate_brightness, for every stepping, step, current and
\* user floor min (min > max_brightness included), the stored brightness is
\* within 0..max_brightness, and the call does not abort.
C1_StoredWithinCeiling ==
    /\ pc # "panic"
    /\ AfterCalculate => (0 <= brightness /\ brightness <= max_brightness)

\* floor(x + 0.5) of a finite x: the nearest integer, a half rounding up.
RoundHalfUp(x) == (x + Half) \div Scale

\* The clamp as the specification states it.
RoundThenBound(x, min, max) ==
    IF RoundHalfUp(x) < min THEN min
    ELSE IF RoundHalfUp(x) > max THEN max
    ELSE RoundHalfUp(x)

\* C2: for min <= max the clamp turns a raw value into the nearest integer
\* (a half rounding up) bounded into [min, max].
C2_ClampRoundsThenBounds ==
    (AfterCalculate /\ ~IsNaN(raw) /\ args.min <= max_brightness)
        => brightness = RoundThenBound(raw, args.min, max_brightness)

\* C2 holds of Backlight::calculate_brightness of main.rs.
C2_BacklightRoundsThenBounds ==
    unit \in {"main", "api"} => C2_ClampRoundsThenBounds

\* C3 as stated: the stepping named Absolute returns the target verbatim.
C3_AbsoluteReturnsTarget ==
    (AfterCalculate /\ args.stepping.kind = "Absolute")
        => raw = FromInt(args.step)

\* C3, amended: Set returns the target verbatim, whatever cur and max are;
\* Absolute returns cur + step.
C3_SetReturnsTarget ==
    /\ (AfterCalculate /\ args.stepping.kind = "Set")
          => raw = FromInt(args.step)
    /\ (AfterCalculate /\ args.stepping.kind = "Absolute")
          => raw = FromInt(cur + args.step)

\* Set has returned a target that differs from cur + step.
C3_Witness ==
    /\ pc = "calculated"
    /\ args.stepping.kind = "Set"
    /\ cur > 0
    /\ args.step # 0
    /\ raw = FromInt(args.step)

\* C4: the Blend loop carries an iteration cap: it exits after at most 64
\* passes, whatever cur, max and (ratio, a, b) are.
C4_LoopExitsWithinCap == iters <= 64

\* The stepping in use is a Blend and the brightness is saturated in the
\* direction of the step.
Saturated ==
    /\ pc \in {"loop", "calculated", "done", "panic"}
    /\ args.stepping.kind \in {"Blend", "BlendRs"}
    /\ \/ (cur = max_brightness /\ args.step > 0)
       \/ (cur = 0 /\ args.step < 0)

\* What Blend returns on saturation: max, or 0.
SaturatedValue == IF args.step > 0 THEN FromInt(max_brightness) ELSE 0

\* C5 as stated: on saturation both Blend implementations return exactly
\* max (or 0) without entering the bisection loop.
C5_SaturationShortCircuited ==
    Saturated => /\ ~entered
                 /\ pc # "loop" => raw = SaturatedValue

\* C5, amended: on saturation Blend returns exactly max (or 0) and no pass of
\* the loop narrows the bracket; stepping/blend.rs returns ahead of the loop,
\* main.rs enters the loop and leaves it at its first test.
C5_SaturationReturnsBound ==
    Saturated =>
        /\ iters = 0
        /\ args.stepping.kind = "BlendRs" => ~entered
        /\ pc = "loop" =>
              BlendWithinTolerance(args.stepping, cur, max_brightness, cur_x)
        /\ pc # "loop" => raw = SaturatedValue

\* Blend of main.rs has returned max for a saturated brightness, through
\* the loop.
C5_Witness ==
    /\ Saturated
    /\ pc = "calculated"
    /\ args.stepping.kind = "Blend"
    /\ cur = max_brightness
    /\ entered
    /\ raw = FromInt(max_brightness)

\* C6: an exponent of 0 is refused when the stepping is built, so that
\* Parabolic::calculate never runs with exponent 0.
C6_ExponentZeroRejected ==
    /\ cli.parabolic.some => cli.parabolic.stepping.exponent # 0
    /\ (AfterCalculate /\ args.stepping.kind = "Parabolic")
          => args.stepping.exponent # 0

\* C7: for Parabolic with exponent 2 and fixed cur and max, the result is
\* non-decreasing in the step, over all signed steps.
C7_ParabolicMonotonic ==
    (AfterCalculate /\ args.stepping.kind = "Parabolic"
                    /\ args.stepping.exponent = Two)
        => \A other \in Steps :
              LET there == ParabolicCalculate(Two, other, cur, max_brightness)
              IN /\ args.step <= other => FLe(raw, there)
                 /\ other <= args.step => FLe(there, raw)

\* The stepping-mode options that are set in the parsed Cli.
Present(c) ==
    {m \in Modes :
        \/ (m = "absolute" /\ c.absolute.some)
        \/ (m = "geometric" /\ c.geometric.some)
        \/ (m = "parabolic" /\ c.parabolic.some)
        \/ (m = "blend" /\ c.blend.some)}

\* main has reached calculate_brightness.
MainCalculates == unit = "main" /\ pc \in {"loop", "calculated", "done"}

\* C8: a command line that names more than one stepping mode ends in a
\* configuration error, with no brightness computed or written; a run that
\* reaches calculate_brightness uses exactly one stepping.
C8_ConflictIsAnError ==
    /\ (unit = "main" /\ Cardinality(requested) > 1)
          => /\ pc = "exit"
             /\ error = "ArgumentConflict"
             /\ args = NoArgs
             /\ writes = <<>>
    /\ MainCalculates
          => /\ Cardinality(Present(cli)) <= 1
             /\ Present(cli) = requested
             /\ args.stepping.kind \in {"Absolute", "Geometric", "Parabolic", "Blend"}

\* A command line naming two modes has been refused.
C8_Witness ==
    /\ unit = "main"
    /\ Cardinality(requested) = 2
    /\ pc = "exit"
    /\ error = "ArgumentConflict"

\* C9: with no stepping mode given the stepping used is Parabolic with
\* exponent 2; with exactly one given, it is that one with its parameters.
C9_DefaultIsParabolicTwo ==
    MainCalculates
        => /\ requested = {} => args.stepping = SteppingOf("Parabolic", Two, 0, 0, 0)
           /\ requested = {"absolute"} => args.stepping = Plain("Absolute")
           /\ requested = {"geometric"} => args.stepping = Plain("Geometric")
           /\ requested = {"parabolic"} => args.stepping = cli.parabolic.stepping
           /\ requested = {"blend"} => args.stepping = cli.blend.stepping
           /\ requested # {} => Present(cli) = requested

\* The default has been used for a command line without a mode.
C9_Witness ==
    /\ MainCalculates
    /\ pc = "calculated"
    /\ requested = {}
    /\ args.stepping.kind = "Parabolic"
    /\ args.stepping.exponent = Two

\* The steppings for which a step of 0 is claimed to change nothing.
NoOpStepping ==
    \/ args.stepping.kind \in {"Absolute", "Linear", "Geometric"}
    \/ (args.stepping.kind = "Parabolic" /\ args.stepping.exponent = Two)

\* C10 as stated: with step 0, Linear, Geometric and Parabolic (exponent 2)
\* return exactly cur, and the stored brightness stays cur when min <= cur.
C10_StepZeroReturnsCur ==
    (AfterCalculate /\ NoOpStepping /\ args.step = 0)
        => /\ raw = FromInt(cur)
           /\ args.min <= cur => brightness = cur

\* C10, amended: with step 0, Linear (Absolute of main.rs) and Geometric
\* return exactly cur; Parabolic (exponent 2) returns cur up to the rounding
\* of the root and the square, less than one half away; in every case the
\* stored brightness stays cur when min <= cur.
C10_StepZeroKeepsBrightness ==
    (AfterCalculate /\ NoOpStepping /\ args.step = 0)
        => /\ args.stepping.kind # "Parabolic" => raw = FromInt(cur)
           /\ ~IsNaN(raw) /\ 2 * Abs(raw - FromInt(cur)) < Scale
           /\ args.min <= cur => brightness = cur

\* Parabolic (exponent 2) has returned a value that is not cur for step 0,
\* and the stored brightness is cur.
C10_Witness ==
    /\ pc = "calculated"
    /\ args.stepping.kind = "Parabolic"
    /\ args.stepping.exponent = Two
    /\ args.step = 0
    /\ raw # FromInt(cur)
    /\ args.min <= cur
    /\ brightness = cur

\* The clamp of the implementation in use, applied to what calculate returned.
ClampedRaw ==
    IF unit = "lib" THEN LightClamp(raw, max_brightness, args.min)
    ELSE BacklightClamp(raw, max_brightness, args.min)

\* C11: the steps of a run come in the order read, compute, clamp, write. The
\* brightness is computed only from the values read from the device; at most
\* one write is issued, only after calculate_brightness has stored the
\* clamped result, and it carries that value; a dry run issues no write.
C11_ReadComputeClampWrite ==
    /\ Len(writes) <= 1
    /\ args # NoArgs
          => /\ dev.readable = "ok"
             /\ max_brightness = dev.max_brightness
             /\ writes = <<>> => cur = dev.brightness
    /\ writes # <<>>
          => /\ pc = "done"
             /\ args # NoArgs
             /\ brightness = ClampedRaw
             /\ writes[1] = brightness
             /\ dev.brightness = brightness
    /\ pc \in {"start", "parsed", "constructed", "loop", "calculated", "exit", "panic"}
          => writes = <<>>
    /\ (unit = "main" /\ cli.dry_run) => writes = <<>>

\* main has written a clamped brightness that differs from the one it read.
C11_Witness ==
    /\ unit = "main"
    /\ pc = "done"
    /\ ~cli.dry_run
    /\ writes = <<ClampedRaw>>
    /\ brightness # cur

\* The errors Cli::parse ends the run with, before the device is read.
CliErrors == {"ArgumentConflict", "ValueValidation"}

\* Nothing was computed and nothing was written.
NothingDone == args = NoArgs /\ raw = 0 /\ ~entered /\ writes = <<>>

\* C12: when brightness or max_brightness cannot be read or parsed, the run
\* ends with that error, nothing is computed and nothing is written; the run
\* takes no step after it has ended with an error, so the read is not retried.
C12_ReadFailureIsFatal ==
    /\ [](dev.readable # "ok"
             => /\ NothingDone
                /\ pc \in {"start", "parsed", "exit"}
                /\ (pc = "exit" /\ error \notin CliErrors) => error = dev.readable)
    /\ [][pc # "exit"]_vars

\* Backlight::new of main.rs has failed on an attribute that is no number.
C12_Witness ==
    /\ unit = "main"
    /\ dev.readable = "parse failure"
    /\ pc = "exit"
    /\ error = "parse failure"
    /\ NothingDone

\* The Blend loop of either implementation is at its head.
InBlendLoop == pc = "loop"

\* The allowance for the rounding of the arithmetic: 0.001 of the range, the
\* tolerance the loop of main.rs itself works to.
Allowance(range) == FMul(range, Milli)

\* 0 <= l <= cur_x <= r <= 1, each comparison up to the allowance.
BracketOrdered ==
    /\ FLe(0, FAdd(l, Allowance(One)))
    /\ FLe(l, FAdd(cur_x, Allowance(One)))
    /\ FLe(cur_x, FAdd(r, Allowance(One)))
    /\ FLe(r, FAdd(One, Allowance(One)))

\* max * h(l) <= cur <= max * h(r) for h = ratio * f + (1 - ratio) * g, up to
\* the allowance: the root of h(x) = cur / max is in [l, r].
RootBracketed ==
    /\ FLe(BlendH(args.stepping, max_brightness, l),
           FAdd(FromInt(cur), Allowance(FromInt(max_brightness))))
    /\ FLe(FSub(FromInt(cur), Allowance(FromInt(max_brightness))),
           BlendH(args.stepping, max_brightness, r))

\* C13: at every pass of the Blend loop, the seed included, the bracket is
\* ordered, 0 <= l <= cur_x <= r <= 1, and the target cur / max lies between
\* h(l) and h(r): the root is never discarded from [l, r].
C13_BracketKeepsRoot == InBlendLoop => (BracketOrdered /\ RootBracketed)

\* C13 holds of Blend::calculate of main.rs.
C13_MainBracketKeepsRoot == unit = "main" => C13_BracketKeepsRoot

\* In stepping/blend.rs the bracket stays ordered; it is the root it loses.
C13_LibBracketOrdered == (InBlendLoop /\ unit = "lib") => BracketOrdered

====
